---- MODULE Spec2Model ----
(***************************************************************************)
(* Authentication and authorization core of the recipe API server:         *)
(* registration, login, the bearer-token middleware, the ownership         *)
(* predicate and the recipe mutation routes.                               *)
(*                                                                         *)
(* Every await of a handler is a scheduling point.  One action of the      *)
(* model runs one JavaScript continuation (the code between two awaits)    *)
(* and then lets the store execute the operation the continuation awaits,  *)
(* so store reads and writes of concurrent requests interleave freely.     *)
(***************************************************************************)
EXTENDS Integers, Sequences, FiniteSets, TLC

(* ------------------------------ bounds -------------------------------- *)
MaxReq == 2       \* request slots served concurrently
MaxUsers == 3     \* user ids the ownership predicate is tried on
MaxRecipes == 1   \* recipe ids the store hands out
MaxTime == 8      \* last day of the clock
MaxTokens == 1    \* tokens kept by clients at the same time

(* ------------------------- program constants -------------------------- *)
TokenLifetime == 7        \* expiresIn: '7d', in days
MinPasswordLength == 5    \* password.length < 5

(* --------------------------- JavaScript values ------------------------- *)
Undefined == [undefined |-> TRUE]
Str(chars) == [s |-> chars]
\* undefined in a field that holds one of a few fixed strings (role, name)
NoValue == "undefined"
\* a boolean as a JavaScript value
Bool(b) == [b |-> b]
\* JavaScript truthiness of undefined or a string
Truthy(v) == v # Undefined /\ v.s # <<>>

ObjectId(n) == [oid |-> n]
\* ToBoolean of what canEditOrDelete can return: a boolean, or the falsy
\* author itself
ToBoolean(v) == IF "b" \in DOMAIN v THEN v.b ELSE FALSE
\* ObjectId.prototype.toString, and the id as jwt.sign serialises it:
\* the hex string of the id, which is what the token carries
toString(o) == [hex |-> o.oid]

(* ----------------------- String.prototype helpers ---------------------- *)
toLowerCaseChar(c) ==
  CASE c = "A" -> "a"
    [] c = "M" -> "m"
    [] OTHER -> c

toLowerCase(s) == [i \in 1..Len(s) |-> toLowerCaseChar(s[i])]

RECURSIVE trimStart(_)
trimStart(s) == IF s # <<>> /\ Head(s) = " " THEN trimStart(Tail(s)) ELSE s

RECURSIVE trimEnd(_)
trimEnd(s) ==
  IF s # <<>> /\ s[Len(s)] = " " THEN trimEnd(SubSeq(s, 1, Len(s) - 1)) ELSE s

trim(s) == trimEnd(trimStart(s))

\* email.toLowerCase().trim()
emailNormOf(email) == trim(toLowerCase(email.s))

\* header.split(' '): the segments between single spaces; two spaces in a
\* row, or a leading or trailing space, give an empty segment
RECURSIVE splitFrom(_, _)
splitFrom(atoms, cur) ==
  IF atoms = <<>> THEN <<cur>>
  ELSE IF Head(atoms).t = "sp" THEN <<cur>> \o splitFrom(Tail(atoms), <<>>)
  ELSE splitFrom(Tail(atoms), Append(cur, Head(atoms)))

split(atoms) == splitFrom(atoms, <<>>)

(* ------------------------------- bcrypt -------------------------------- *)
\* bcrypt.hash(password, 10): a digest that only the same plaintext verifies
bcryptHash(password) == [digestOf |-> password.s]
bcryptCompare(password, passwordHash) == passwordHash.digestOf = password.s

(* ---------------------------- state ------------------------------------ *)
VARIABLES
  env,      \* process.env: JWT_SECRET and ADMIN_EMAILS
  users,    \* the User collection
  recipes,  \* the Recipe collection
  nextRecipe, \* the next recipe id the store hands out
  now,      \* the clock, in days
  storeUp,  \* whether the database answers (FALSE: every call rejects)
  tokens,   \* tokens held by clients (issued by the server or made outside)
  reqs      \* the requests in flight and their responses

vars == <<env, users, recipes, nextRecipe, now, storeUp, tokens, reqs>>

(* ------------------------------ config --------------------------------- *)
DefaultSecret == Str(<<"secret">>)
EnvSecret == Str(<<"k3y-from-env">>)
OutsiderSecret == Str(<<"outsider">>)
DefaultAdminList == << <<"m">>, <<"t">> >>

\* const JWT_SECRET = process.env.JWT_SECRET || 'secret'
JWT_SECRET == IF Truthy(env.JWT_SECRET) THEN env.JWT_SECRET ELSE DefaultSecret

\* (process.env.ADMIN_EMAILS || '<two addresses>').split(',')
\*    .map(e => e.trim().toLowerCase())
ADMIN_EMAILS ==
  LET list == IF env.ADMIN_EMAILS # Undefined THEN env.ADMIN_EMAILS.list
              ELSE DefaultAdminList
  IN {toLowerCase(trim(list[i])) : i \in 1..Len(list)}

(* ------------------------------- tokens -------------------------------- *)
\* jwt.sign(payload, secret, { expiresIn: '7d' }) at clock time
jwtSign(payload, secret, clock) ==
  [t |-> "jwt", key |-> secret, id |-> payload.id, name |-> payload.name,
   role |-> payload.role, iat |-> clock, exp |-> clock + TokenLifetime]

\* jwt.verify(token, secret) returns the payload: the segment is one
\* well-formed token, signed with secret, and the clock is before its exp
jwtVerify(segment, secret, clock) ==
  /\ Len(segment) = 1
  /\ segment[1].t = "jwt"
  /\ segment[1].key = secret
  /\ clock < segment[1].exp

signToken(user) ==
  jwtSign([id |-> toString(user._id), name |-> user.name, role |-> user.role],
          JWT_SECRET, now)

(* ----------------------------- middleware ------------------------------ *)
Word(w) == [t |-> "word", w |-> w]
Space == [t |-> "sp"]

Next401(error) == [status |-> "401", error |-> error, user |-> Undefined]

\* mutant: the scheme of the header is not compared
authAnyScheme(header) ==
  IF ~Truthy(header) THEN Next401("No token provided")
  ELSE
    LET parts == split(header.s)
        token == IF Len(parts) >= 2 THEN parts[2] ELSE <<>>
    IN IF token = <<>> THEN Next401("Malformed token")
       ELSE IF jwtVerify(token, JWT_SECRET, now)
       THEN [status |-> "next", error |-> NoValue,
             user |-> [id |-> token[1].id, name |-> token[1].name,
                       role |-> IF token[1].role = NoValue THEN "user"
                                ELSE token[1].role]]
       ELSE Next401("Invalid token")

\* mutant: the role of the identity is read from the Credential Store
authStoredRole(header) ==
  IF ~Truthy(header) THEN Next401("No token provided")
  ELSE
    LET parts == split(header.s)
        scheme == parts[1]
        token == IF Len(parts) >= 2 THEN parts[2] ELSE <<>>
    IN IF scheme # <<Word("Bearer")>> \/ token = <<>>
       THEN Next401("Malformed token")
       ELSE IF jwtVerify(token, JWT_SECRET, now)
       THEN [status |-> "next", error |-> NoValue,
             user |-> [id |-> token[1].id, name |-> token[1].name,
                       role |-> IF \E u \in users : toString(u._id) = token[1].id
                                THEN (CHOOSE u \in users :
                                        toString(u._id) = token[1].id).role
                                ELSE "user"]]
       ELSE Next401("Invalid token")

\* module.exports = function(req, res, next): the response it sends, or
\* status "next" with req.user when it calls next()
auth(header) ==
  IF ~Truthy(header) THEN Next401("No token provided")
  ELSE
    LET parts == split(header.s)
        scheme == parts[1]
        token == IF Len(parts) >= 2 THEN parts[2] ELSE <<>>
    IN IF scheme # <<Word("Bearer")>> \/ token = <<>>
       THEN Next401("Malformed token")
       ELSE IF jwtVerify(token,
                  IF Truthy(env.JWT_SECRET) THEN env.JWT_SECRET ELSE DefaultSecret,
                  now)
       THEN [status |-> "next", error |-> NoValue,
             user |-> [id |-> token[1].id, name |-> token[1].name,
                       role |-> IF token[1].role = NoValue THEN "user"
                                ELSE token[1].role]]
       ELSE Next401("Invalid token")

(* ------------------------------ ownership ------------------------------ *)
\* mutant: the author is compared with the id without its string form
canEditOrDeleteNoString(user, recipe) ==
  IF user = Undefined THEN Bool(FALSE)
  ELSE IF user.role = "admin" THEN Bool(TRUE)
  ELSE IF recipe.author = Undefined THEN recipe.author
  ELSE Bool(recipe.author = user.id)

\* the value the function returns: a boolean, or the falsy author itself
canEditOrDelete(user, recipe) ==
  IF user = Undefined THEN Bool(FALSE)
  ELSE IF user.role = "admin" THEN Bool(TRUE)
  ELSE IF recipe.author = Undefined THEN recipe.author
  ELSE Bool(toString(recipe.author) = user.id)

(* ------------------------------ requests ------------------------------- *)
Slots == 1..MaxReq

NoBody == [name |-> Undefined, email |-> Undefined, password |-> Undefined,
           content |-> NoValue, author |-> Undefined]

\* a free slot; status "none": no response has been sent
IdleReq ==
  [kind |-> "none", pc |-> "idle", header |-> Undefined, body |-> NoBody,
   rid |-> Undefined, user |-> Undefined, emailNorm |-> Undefined,
   doc |-> Undefined, status |-> "none", error |-> NoValue,
   token |-> Undefined]

\* a new request is served in the first free slot
Free(i) ==
  /\ reqs[i].pc = "idle"
  /\ \A j \in Slots : j < i => reqs[j].pc # "idle"

Arrive(kind, header, body, rid) ==
  [IdleReq EXCEPT !.kind = kind, !.header = header, !.body = body, !.rid = rid]

\* res.status(status).json({ error }) and return
Respond(r, status, error) ==
  [r EXCEPT !.pc = "done", !.status = status, !.error = error]

\* catch (err) { res.status(500).json({ error: err.message }) }
Catch(r, message) == Respond(r, "500", message)

StoreDown == "store unavailable"
DuplicateKey == "E11000 duplicate key"

(* ---------------------------- the User model --------------------------- *)
\* User.findOne({ email })
User_findOne(email) ==
  IF \E u \in users : u.email = email
  THEN CHOOSE u \in users : u.email = email
  ELSE Undefined

\* User.findById(id), id in its string form
User_findById(id) ==
  IF \E u \in users : toString(u._id) = id
  THEN CHOOSE u \in users : toString(u._id) = id
  ELSE Undefined

\* the unique index on email: a create with an email already stored is
\* rejected by the store with a duplicate-key error
User_createRejects(email) == \E u \in users : u.email = email

NewUserId == ObjectId(Cardinality(users) + 1)

(* ------------------------- POST /auth/register ------------------------- *)
RegisterStart(body) ==
  LET r == Arrive("register", Undefined, body, Undefined)
  IN IF ~Truthy(body.name) \/ ~Truthy(body.email) \/ ~Truthy(body.password)
     THEN Respond(r, "400", "Name, email and password are required")
     ELSE IF Len(body.password.s) < MinPasswordLength
     THEN Respond(r, "400", "Password must be at least 5 characters")
     ELSE LET emailNorm == emailNormOf(body.email)
              q == [r EXCEPT !.emailNorm = Str(emailNorm)]
          IN IF ~storeUp THEN Catch(q, StoreDown)
             ELSE [q EXCEPT !.pc = "findOne", !.doc = User_findOne(emailNorm)]

\* existing ? 409 : await bcrypt.hash(password, 10)
RegisterAfterFindOne(r) ==
  IF r.doc # Undefined
  THEN Respond(r, "409", "Email already registered. Please log in.")
  ELSE [r EXCEPT !.pc = "hash"]

RegisterNewUser(r) ==
  [_id |-> NewUserId, name |-> r.body.name.s, email |-> r.emailNorm.s,
   passwordHash |-> bcryptHash(r.body.password),
   role |-> IF r.emailNorm.s \in ADMIN_EMAILS THEN "admin" ELSE "user"]

\* const user = await User.create({ name, email: emailNorm, passwordHash, role })
RegisterAfterHash(r) ==
  IF ~storeUp THEN Catch(r, StoreDown)
  ELSE IF User_createRejects(r.emailNorm.s) THEN Catch(r, DuplicateKey)
  ELSE [r EXCEPT !.pc = "create", !.doc = RegisterNewUser(r)]

\* const token = signToken(user); res.json({ token, user })
RegisterAfterCreate(r) ==
  [Respond(r, "200", NoValue) EXCEPT !.token = signToken(r.doc)]

Register(i, body) ==
  /\ Free(i)
  /\ reqs' = [reqs EXCEPT ![i] = RegisterStart(body)]
  /\ UNCHANGED <<env, users, recipes, nextRecipe, now, storeUp, tokens>>

RegisterHash(i) ==
  /\ reqs[i].kind = "register" /\ reqs[i].pc = "findOne"
  /\ reqs' = [reqs EXCEPT ![i] = RegisterAfterFindOne(reqs[i])]
  /\ UNCHANGED <<env, users, recipes, nextRecipe, now, storeUp, tokens>>

RegisterCreate(i) ==
  /\ reqs[i].kind = "register" /\ reqs[i].pc = "hash"
  /\ LET r == RegisterAfterHash(reqs[i])
     IN /\ reqs' = [reqs EXCEPT ![i] = r]
        /\ users' = IF r.pc = "create" THEN users \cup {r.doc} ELSE users
  /\ UNCHANGED <<env, recipes, nextRecipe, now, storeUp, tokens>>

RegisterRespond(i) ==
  /\ reqs[i].kind = "register" /\ reqs[i].pc = "create"
  /\ reqs' = [reqs EXCEPT ![i] = RegisterAfterCreate(reqs[i])]
  /\ UNCHANGED <<env, users, recipes, nextRecipe, now, storeUp, tokens>>

(* --------------------------- POST /auth/login -------------------------- *)
LoginStart(body) ==
  LET r == Arrive("login", Undefined, body, Undefined)
  IN IF ~Truthy(body.email) \/ ~Truthy(body.password)
     THEN Respond(r, "400", "Email and password are required")
     ELSE LET emailNorm == emailNormOf(body.email)
              q == [r EXCEPT !.emailNorm = Str(emailNorm)]
          IN IF ~storeUp THEN Catch(q, StoreDown)
             ELSE [q EXCEPT !.pc = "findOne", !.doc = User_findOne(emailNorm)]

\* !user ? 404 : await bcrypt.compare(password, user.passwordHash)
LoginAfterFindOne(r) ==
  IF r.doc = Undefined
  THEN Respond(r, "404", "Email not found. Please register.")
  ELSE [r EXCEPT !.pc = "compare"]

\* ADMIN_EMAILS.includes(emailNorm) && user.role !== 'admin'
LoginPromotes(r) == r.emailNorm.s \in ADMIN_EMAILS /\ r.doc.role # "admin"

\* const token = signToken(user); res.json({ token, user })
LoginIssue(r) ==
  [Respond(r, "200", NoValue) EXCEPT !.token = signToken(r.doc)]

\* mutant: the promotion changes the local document and is never saved
LoginAfterCompareNoSave(r) ==
  IF ~bcryptCompare(r.body.password, r.doc.passwordHash)
  THEN Respond(r, "401", "Invalid credentials")
  ELSE IF LoginPromotes(r) THEN LoginIssue([r EXCEPT !.doc.role = "admin"])
  ELSE LoginIssue(r)

\* mutant: the stored role is made to follow the admin list both ways
LoginAfterCompareResync(r) ==
  LET role == IF r.emailNorm.s \in ADMIN_EMAILS THEN "admin" ELSE "user"
  IN IF ~bcryptCompare(r.body.password, r.doc.passwordHash)
     THEN Respond(r, "401", "Invalid credentials")
     ELSE IF r.doc.role # role
     THEN IF ~storeUp THEN Catch([r EXCEPT !.doc.role = role], StoreDown)
          ELSE [r EXCEPT !.pc = "save", !.doc.role = role]
     ELSE LoginIssue(r)

\* mutant: the result of bcrypt.compare is not looked at
LoginAfterCompareNoCheck(r) ==
  IF LoginPromotes(r)
  THEN IF ~storeUp THEN Catch([r EXCEPT !.doc.role = "admin"], StoreDown)
       ELSE [r EXCEPT !.pc = "save", !.doc.role = "admin"]
  ELSE LoginIssue(r)

\* !ok ? 401 : promotion (user.role = 'admin'; await user.save()) or the token
LoginAfterCompare(r) ==
  IF ~bcryptCompare(r.body.password, r.doc.passwordHash)
  THEN Respond(r, "401", "Invalid credentials")
  ELSE IF LoginPromotes(r)
  THEN IF ~storeUp THEN Catch([r EXCEPT !.doc.role = "admin"], StoreDown)
       ELSE [r EXCEPT !.pc = "save", !.doc.role = "admin"]
  ELSE LoginIssue(r)

\* user.save() writes the modified path, role, of the document read
User_save(doc) ==
  {IF u._id = doc._id THEN [u EXCEPT !.role = doc.role] ELSE u : u \in users}

Login(i, body) ==
  /\ Free(i)
  /\ reqs' = [reqs EXCEPT ![i] = LoginStart(body)]
  /\ UNCHANGED <<env, users, recipes, nextRecipe, now, storeUp, tokens>>

LoginCompare(i) ==
  /\ reqs[i].kind = "login" /\ reqs[i].pc = "findOne"
  /\ reqs' = [reqs EXCEPT ![i] = LoginAfterFindOne(reqs[i])]
  /\ UNCHANGED <<env, users, recipes, nextRecipe, now, storeUp, tokens>>

LoginSave(i) ==
  /\ reqs[i].kind = "login" /\ reqs[i].pc = "compare"
  /\ LET r == LoginAfterCompare(reqs[i])
     IN /\ reqs' = [reqs EXCEPT ![i] = r]
        /\ users' = IF r.pc = "save" THEN User_save(r.doc) ELSE users
  /\ UNCHANGED <<env, recipes, nextRecipe, now, storeUp, tokens>>

LoginRespond(i) ==
  /\ reqs[i].kind = "login" /\ reqs[i].pc = "save"
  /\ reqs' = [reqs EXCEPT ![i] = LoginIssue(reqs[i])]
  /\ UNCHANGED <<env, users, recipes, nextRecipe, now, storeUp, tokens>>

(* ----------------------------- GET /auth/me ---------------------------- *)
\* a rejection inside an async handler that has no try/catch: Express 4
\* never answers the request (outcome "none"); Express 5 hands the
\* rejection to its default error handler, which answers 500
UnhandledOutcomes == {"none", "500"}
Unhandled(r, outcome) == Respond(r, outcome, StoreDown)

\* auth, then const user = await User.findById(req.user.id)
MeStart(header, outcome) ==
  LET a == auth(header)
      r == [Arrive("me", header, NoBody, Undefined) EXCEPT !.user = a.user]
  IN IF a.status = "401" THEN Respond(r, "401", a.error)
     ELSE IF ~storeUp THEN Unhandled(r, outcome)
     ELSE [r EXCEPT !.pc = "findById", !.doc = User_findById(a.user.id)]

\* !user ? 404 : await Recipe.countDocuments({ author: user._id })
MeAfterFindById(r, outcome) ==
  IF r.doc = Undefined THEN Respond(r, "404", "User not found")
  ELSE IF ~storeUp THEN Unhandled(r, outcome)
  ELSE [r EXCEPT !.pc = "countDocuments"]

Me(i, header, outcome) ==
  /\ Free(i)
  /\ reqs' = [reqs EXCEPT ![i] = MeStart(header, outcome)]
  /\ UNCHANGED <<env, users, recipes, nextRecipe, now, storeUp, tokens>>

MeCount(i, outcome) ==
  /\ reqs[i].kind = "me" /\ reqs[i].pc = "findById"
  /\ reqs' = [reqs EXCEPT ![i] = MeAfterFindById(reqs[i], outcome)]
  /\ UNCHANGED <<env, users, recipes, nextRecipe, now, storeUp, tokens>>

\* res.json({ id, name, email, role, recipeCount })
MeRespond(i) ==
  /\ reqs[i].kind = "me" /\ reqs[i].pc = "countDocuments"
  /\ reqs' = [reqs EXCEPT ![i] = Respond(reqs[i], "200", NoValue)]
  /\ UNCHANGED <<env, users, recipes, nextRecipe, now, storeUp, tokens>>

(* --------------------------- the Recipe model -------------------------- *)
\* Recipe.findById(req.params.id)
Recipe_findById(rid) ==
  IF \E x \in recipes : x._id = rid
  THEN CHOOSE x \in recipes : x._id = rid
  ELSE Undefined

\* the author path is an ObjectId: the string id of the token is cast to it
castObjectId(id) == ObjectId(id.hex)

DocumentNotFound == "DocumentNotFoundError"

\* recipe.save() of a document read earlier: rejected when the store is
\* down or the document is gone, else it writes the document's content
Recipe_saveError(doc) ==
  IF ~storeUp THEN StoreDown
  ELSE IF ~(\E x \in recipes : x._id = doc._id) THEN DocumentNotFound
  ELSE NoValue

Recipe_save(doc) ==
  {IF x._id = doc._id THEN [x EXCEPT !.content = doc.content] ELSE x :
     x \in recipes}

\* recipe.deleteOne()
Recipe_deleteOne(doc) == {x \in recipes : x._id # doc._id}

(* ----------------------------- POST /recipes --------------------------- *)
\* mutant: an author field of the request body is taken when present
CreateStartBodyAuthor(header, body) ==
  LET a == auth(header)
      r == [Arrive("create", header, body, Undefined) EXCEPT !.user = a.user]
  IN IF a.status = "401" THEN Respond(r, "401", a.error)
     ELSE IF body.content = NoValue
     THEN Respond(r, "400", "All fields are required")
     ELSE IF ~storeUp THEN Catch(r, StoreDown)
     ELSE [r EXCEPT !.pc = "save",
                    !.doc = [_id |-> ObjectId(nextRecipe),
                             author |-> IF body.author # Undefined
                                        THEN castObjectId(body.author)
                                        ELSE castObjectId(a.user.id),
                             content |-> body.content]]

\* auth, the required fields, new Recipe({..., author: req.user.id }),
\* await recipe.save()
CreateStart(header, body) ==
  LET a == auth(header)
      r == [Arrive("create", header, body, Undefined) EXCEPT !.user = a.user]
  IN IF a.status = "401" THEN Respond(r, "401", a.error)
     ELSE IF body.content = NoValue
     THEN Respond(r, "400", "All fields are required")
     ELSE IF ~storeUp THEN Catch(r, StoreDown)
     ELSE [r EXCEPT !.pc = "save",
                    !.doc = [_id |-> ObjectId(nextRecipe),
                             author |-> castObjectId(a.user.id),
                             content |-> body.content]]

Create(i, header, body) ==
  /\ Free(i)
  /\ nextRecipe <= MaxRecipes
  /\ LET r == CreateStart(header, body)
     IN /\ reqs' = [reqs EXCEPT ![i] = r]
        /\ recipes' = IF r.pc = "save" THEN recipes \cup {r.doc} ELSE recipes
        /\ nextRecipe' = IF r.pc = "save" THEN nextRecipe + 1 ELSE nextRecipe
  /\ UNCHANGED <<env, users, now, storeUp, tokens>>

\* res.status(201).json(recipe)
CreateRespond(i) ==
  /\ reqs[i].kind = "create" /\ reqs[i].pc = "save"
  /\ reqs' = [reqs EXCEPT ![i] = Respond(reqs[i], "201", NoValue)]
  /\ UNCHANGED <<env, users, recipes, nextRecipe, now, storeUp, tokens>>

(* ------------------- PUT and DELETE /recipes/:id ------------------------ *)
\* auth, then const recipe = await Recipe.findById(req.params.id); the
\* same opening for app.put, app.delete and router.put
MutationStart(kind, header, rid, body) ==
  LET a == auth(header)
      r == [Arrive(kind, header, body, rid) EXCEPT !.user = a.user]
  IN IF a.status = "401" THEN Respond(r, "401", a.error)
     ELSE IF ~storeUp THEN Catch(r, StoreDown)
     ELSE [r EXCEPT !.pc = "findById", !.doc = Recipe_findById(rid)]

\* the guard of app.put and app.delete: 404, then 403
MutationGuard(r) ==
  IF r.doc = Undefined THEN "404"
  ELSE IF ~ToBoolean(canEditOrDelete(r.user, r.doc)) THEN "403"
  ELSE "ok"

GuardError(g) == IF g = "404" THEN "Not found" ELSE "Not allowed"

\* app.put: the guard, if (title) recipe.title = title ..., await recipe.save()
UpdateAfterFindById(r) ==
  LET g == MutationGuard(r)
      d == IF r.body.content # NoValue
           THEN [r.doc EXCEPT !.content = r.body.content] ELSE r.doc
  IN IF g # "ok" THEN Respond(r, g, GuardError(g))
     ELSE IF Recipe_saveError(d) # NoValue THEN Catch(r, Recipe_saveError(d))
     ELSE [r EXCEPT !.pc = "save", !.doc = d]

\* router.put: 404, the fields assigned from the body (JSON.parse of a
\* missing field throws), await recipe.save()
RouterPutAfterFindById(r) ==
  IF r.doc = Undefined THEN Respond(r, "404", "Not found")
  ELSE IF r.body.content = NoValue THEN Catch(r, "SyntaxError")
  ELSE LET d == [r.doc EXCEPT !.content = r.body.content]
       IN IF Recipe_saveError(d) # NoValue THEN Catch(r, Recipe_saveError(d))
          ELSE [r EXCEPT !.pc = "save", !.doc = d]

\* app.delete: the guard, await recipe.deleteOne()
DeleteAfterFindById(r) ==
  LET g == MutationGuard(r)
  IN IF g # "ok" THEN Respond(r, g, GuardError(g))
     ELSE IF ~storeUp THEN Catch(r, StoreDown)
     ELSE [r EXCEPT !.pc = "deleteOne"]

Update(i, header, rid, body) ==
  /\ Free(i)
  /\ reqs' = [reqs EXCEPT ![i] = MutationStart("update", header, rid, body)]
  /\ UNCHANGED <<env, users, recipes, nextRecipe, now, storeUp, tokens>>

UpdateSave(i) ==
  /\ reqs[i].kind = "update" /\ reqs[i].pc = "findById"
  /\ LET r == UpdateAfterFindById(reqs[i])
     IN /\ reqs' = [reqs EXCEPT ![i] = r]
        /\ recipes' = IF r.pc = "save" THEN Recipe_save(r.doc) ELSE recipes
  /\ UNCHANGED <<env, users, nextRecipe, now, storeUp, tokens>>

RouterPut(i, header, rid, body) ==
  /\ Free(i)
  /\ reqs' = [reqs EXCEPT ![i] = MutationStart("routerPut", header, rid, body)]
  /\ UNCHANGED <<env, users, recipes, nextRecipe, now, storeUp, tokens>>

RouterPutSave(i) ==
  /\ reqs[i].kind = "routerPut" /\ reqs[i].pc = "findById"
  /\ LET r == RouterPutAfterFindById(reqs[i])
     IN /\ reqs' = [reqs EXCEPT ![i] = r]
        /\ recipes' = IF r.pc = "save" THEN Recipe_save(r.doc) ELSE recipes
  /\ UNCHANGED <<env, users, nextRecipe, now, storeUp, tokens>>

\* res.json(recipe), of app.put and of router.put
SaveRespond(i) ==
  /\ reqs[i].kind \in {"update", "routerPut"} /\ reqs[i].pc = "save"
  /\ reqs' = [reqs EXCEPT ![i] = Respond(reqs[i], "200", NoValue)]
  /\ UNCHANGED <<env, users, recipes, nextRecipe, now, storeUp, tokens>>

Delete(i, header, rid) ==
  /\ Free(i)
  /\ reqs' = [reqs EXCEPT ![i] = MutationStart("delete", header, rid, NoBody)]
  /\ UNCHANGED <<env, users, recipes, nextRecipe, now, storeUp, tokens>>

DeleteExec(i) ==
  /\ reqs[i].kind = "delete" /\ reqs[i].pc = "findById"
  /\ LET r == DeleteAfterFindById(reqs[i])
     IN /\ reqs' = [reqs EXCEPT ![i] = r]
        /\ recipes' = IF r.pc = "deleteOne" THEN Recipe_deleteOne(r.doc)
                      ELSE recipes
  /\ UNCHANGED <<env, users, nextRecipe, now, storeUp, tokens>>

\* res.json({ success: true })
DeleteRespond(i) ==
  /\ reqs[i].kind = "delete" /\ reqs[i].pc = "deleteOne"
  /\ reqs' = [reqs EXCEPT ![i] = Respond(reqs[i], "200", NoValue)]
  /\ UNCHANGED <<env, users, recipes, nextRecipe, now, storeUp, tokens>>

(* ------------------ clients, clock, store and operator ----------------- *)
\* a client reads the response and frees the connection
Recycle(i) ==
  /\ reqs[i].pc = "done"
  /\ reqs' = [reqs EXCEPT ![i] = IdleReq]
  /\ UNCHANGED <<env, users, recipes, nextRecipe, now, storeUp, tokens>>

\* a client keeps the token of a register or login response
KeepToken(i) ==
  /\ reqs[i].pc = "done" /\ reqs[i].token # Undefined
  /\ reqs[i].token \notin tokens /\ Cardinality(tokens) < MaxTokens
  /\ tokens' = tokens \cup {reqs[i].token}
  /\ UNCHANGED <<env, users, recipes, nextRecipe, now, storeUp, reqs>>

\* a client throws a token away
DropToken(token) ==
  /\ token \in tokens
  /\ tokens' = tokens \ {token}
  /\ UNCHANGED <<env, users, recipes, nextRecipe, now, storeUp, reqs>>

\* somebody outside the server signs a token of their own making
Forge(token) ==
  /\ token \notin tokens /\ Cardinality(tokens) < MaxTokens
  /\ tokens' = tokens \cup {token}
  /\ UNCHANGED <<env, users, recipes, nextRecipe, now, storeUp, reqs>>

\* a day passes
Tick ==
  /\ now < MaxTime
  /\ now' = now + 1
  /\ UNCHANGED <<env, users, recipes, nextRecipe, storeUp, tokens, reqs>>

\* the database connection drops, or comes back
Outage ==
  /\ storeUp' = ~storeUp
  /\ UNCHANGED <<env, users, recipes, nextRecipe, now, tokens, reqs>>

\* the process is restarted with another environment
Restart(e) ==
  /\ e # env /\ \A i \in Slots : reqs[i].pc = "idle"
  /\ env' = e
  /\ UNCHANGED <<users, recipes, nextRecipe, now, storeUp, tokens, reqs>>

(* ------------------------------- inputs -------------------------------- *)
Name == Str(<<"n">>)
Pass == Str(<<"p", "a", "s", "s", "1">>)
OtherPass == Str(<<"p", "a", "s", "s", "2">>)
ShortPass == Str(<<"p", "a", "s", "s">>)
Emails == {Str(<<"A", " ">>), Str(<<" ", "a">>)}

Credentials(name, email, password) ==
  [name |-> name, email |-> email, password |-> password, content |-> NoValue,
   author |-> Undefined]

RegisterBodies ==
  {Credentials(Name, e, Pass) : e \in Emails}
    \cup {Credentials(Name, Str(<<>>), Pass),
          Credentials(Name, Str(<<"a">>), ShortPass)}

LoginBodies ==
  {Credentials(Undefined, Str(<<"A", " ">>), p) : p \in {Pass, OtherPass}}
    \cup {Credentials(Undefined, Undefined, Pass),
          Credentials(Undefined, Str(<<"a">>), Str(<<>>))}

\* process.env as the operator may set it
Envs ==
  [JWT_SECRET : {Undefined, EnvSecret},
   ADMIN_EMAILS : {Undefined, [list |-> << <<" ", "A">> >>]}]

(* ---------------------------- specifications --------------------------- *)
Init ==
  /\ env \in Envs
  /\ users = {}
  /\ recipes = {}
  /\ nextRecipe = 1
  /\ now = 0
  /\ storeUp = TRUE
  /\ tokens = {}
  /\ reqs = [i \in Slots |-> IdleReq]

\* the account routes under concurrent requests, outages and restarts
NextAccounts ==
  \/ \E i \in Slots, body \in RegisterBodies : Register(i, body)
  \/ \E i \in Slots : RegisterHash(i)
  \/ \E i \in Slots : RegisterCreate(i)
  \/ \E i \in Slots : RegisterRespond(i)
  \/ \E i \in Slots, body \in LoginBodies : Login(i, body)
  \/ \E i \in Slots : LoginCompare(i)
  \/ \E i \in Slots : LoginSave(i)
  \/ \E i \in Slots : LoginRespond(i)
  \/ \E i \in Slots : Recycle(i)
  \/ Outage
  \/ \E e \in Envs : Restart(e)

SpecAccounts == Init /\ [][NextAccounts]_vars

\* a user registered while the admin list did not name the address
Alice ==
  [_id |-> ObjectId(1), name |-> "n", email |-> <<"a">>,
   passwordHash |-> bcryptHash(Pass), role |-> "user"]

\* tokens made outside the server: under the well-known default secret
\* or a key of the outsider's, with any claims and any expiry
ForgedTokens ==
  {[t |-> "jwt", key |-> k, id |-> toString(ObjectId(1)), name |-> "mallory",
    role |-> r, iat |-> 0, exp |-> e] :
     k \in {DefaultSecret, OutsiderSecret}, r \in {"admin", NoValue},
     e \in {TokenLifetime, 2 * TokenLifetime}}

\* the Authorization headers a client builds around a token
HeadersWith(token) ==
  {Str(<<Word("Bearer"), Space, token>>),
   Str(<<Word("bearer"), Space, token>>),
   Str(<<Word("Bearer"), Space, Space, token>>),
   Str(<<Word("Bearer"), Space, token, Space, Word("x")>>),
   Str(<<token>>)}

HeadersWithout ==
  {Undefined, Str(<<>>), Str(<<Word("Bearer")>>),
   Str(<<Word("Bearer"), Space, Word("garbage")>>)}

Headers == HeadersWithout \cup UNION {HeadersWith(token) : token \in tokens}

InitSession ==
  /\ env \in Envs
  /\ users = {Alice}
  /\ recipes = {}
  /\ nextRecipe = 1
  /\ now = 0
  /\ storeUp = TRUE
  /\ tokens = {}
  /\ reqs = [i \in Slots |-> IdleReq]

\* one client after the other: logins, kept, dropped and forged tokens,
\* the clock, and the guarded identity route
NextSession ==
  \/ Login(1, Credentials(Undefined, Str(<<"a">>), Pass))
  \/ LoginCompare(1)
  \/ LoginSave(1)
  \/ LoginRespond(1)
  \/ KeepToken(1)
  \/ \E token \in tokens : DropToken(token)
  \/ \E token \in ForgedTokens : Forge(token)
  \/ Tick
  \/ \E header \in Headers, outcome \in UnhandledOutcomes :
        Me(1, header, outcome)
  \/ \E outcome \in UnhandledOutcomes : MeCount(1, outcome)
  \/ MeRespond(1)
  \/ Recycle(1)

SpecSession == InitSession /\ [][NextSession]_vars

Bob ==
  [_id |-> ObjectId(2), name |-> "b", email |-> <<"b">>,
   passwordHash |-> bcryptHash(OtherPass), role |-> "user"]

\* registered under an admin list that names the address
Carol ==
  [_id |-> ObjectId(3), name |-> "c", email |-> <<"m">>,
   passwordHash |-> bcryptHash(Pass), role |-> "admin"]

Contents == {"c1", "c2"}
RecipeBody(content) == [NoBody EXCEPT !.content = content]
RecipeIds == {ObjectId(n) : n \in 1..MaxRecipes}

\* the header a client sends: none, or Bearer and a token it holds
ClientHeaders ==
  {Undefined} \cup {Str(<<Word("Bearer"), Space, token>>) : token \in tokens}

\* three registered users, each holding the token of its registration
InitRecipes ==
  /\ env = [JWT_SECRET |-> EnvSecret, ADMIN_EMAILS |-> Undefined]
  /\ users = {Alice, Bob, Carol}
  /\ recipes = {}
  /\ nextRecipe = 1
  /\ now = 0
  /\ storeUp = TRUE
  /\ tokens = {jwtSign([id |-> toString(u._id), name |-> u.name,
                        role |-> u.role], EnvSecret, 0) :
                 u \in {Alice, Bob, Carol}}
  /\ reqs = [i \in Slots |-> IdleReq]

\* the recipe routes and the identity route under concurrent requests
\* and outages
NextRecipes ==
  \/ \E i \in Slots, header \in ClientHeaders :
        Create(i, header, RecipeBody("c1"))
  \/ \E i \in Slots : CreateRespond(i)
  \/ \E i \in Slots, header \in ClientHeaders, rid \in RecipeIds,
         content \in {NoValue, "c2"} :
        Update(i, header, rid, RecipeBody(content))
  \/ \E i \in Slots : UpdateSave(i)
  \/ \E i \in Slots, header \in ClientHeaders, rid \in RecipeIds,
         content \in {NoValue, "c2"} :
        RouterPut(i, header, rid, RecipeBody(content))
  \/ \E i \in Slots : RouterPutSave(i)
  \/ \E i \in Slots : SaveRespond(i)
  \/ \E i \in Slots, header \in ClientHeaders, rid \in RecipeIds :
        Delete(i, header, rid)
  \/ \E i \in Slots : DeleteExec(i)
  \/ \E i \in Slots : DeleteRespond(i)
  \/ \E i \in Slots : Recycle(i)
  \/ Outage

SpecRecipes == InitRecipes /\ [][NextRecipes]_vars

\* two registered users holding their tokens, under an admin list that has
\* come to name the first one
InitFaults ==
  /\ env = [JWT_SECRET |-> EnvSecret, ADMIN_EMAILS |-> [list |-> << <<" ", "A">> >>]]
  /\ users = {Alice, Bob}
  /\ recipes = {}
  /\ nextRecipe = 1
  /\ now = 0
  /\ storeUp = TRUE
  /\ tokens = {jwtSign([id |-> toString(u._id), name |-> u.name,
                        role |-> u.role], EnvSecret, 0) : u \in {Alice, Bob}}
  /\ reqs = [i \in Slots |-> IdleReq]

\* every route, one request at a time, while the store comes and goes
NextFaults ==
  \/ Register(1, Credentials(Name, Str(<<"M">>), Pass))
  \/ RegisterHash(1)
  \/ RegisterCreate(1)
  \/ RegisterRespond(1)
  \/ Login(1, Credentials(Undefined, Str(<<"a">>), Pass))
  \/ LoginCompare(1)
  \/ LoginSave(1)
  \/ LoginRespond(1)
  \/ \E header \in ClientHeaders, outcome \in UnhandledOutcomes :
        Me(1, header, outcome)
  \/ \E outcome \in UnhandledOutcomes : MeCount(1, outcome)
  \/ MeRespond(1)
  \/ \E header \in ClientHeaders : Create(1, header, RecipeBody("c1"))
  \/ CreateRespond(1)
  \/ \E header \in ClientHeaders, rid \in RecipeIds :
        Update(1, header, rid, RecipeBody("c2"))
  \/ UpdateSave(1)
  \/ SaveRespond(1)
  \/ \E header \in ClientHeaders, rid \in RecipeIds : Delete(1, header, rid)
  \/ DeleteExec(1)
  \/ DeleteRespond(1)
  \/ Recycle(1)
  \/ Outage

SpecFaults == InitFaults /\ [][NextFaults]_vars

\* the inputs of the ownership predicate: no identity or an identity of
\* either role, and a recipe with no author or with an author
Identities ==
  {Undefined} \cup
    {[id |-> toString(ObjectId(n)), name |-> "n", role |-> role] :
       n \in 1..MaxUsers, role \in {"user", "admin"}}

Resources ==
  {[_id |-> ObjectId(1), author |-> a, content |-> c] :
     a \in {Undefined} \cup {ObjectId(n) : n \in 1..MaxUsers}, c \in Contents}

InitOwnership ==
  /\ env = [JWT_SECRET |-> EnvSecret, ADMIN_EMAILS |-> Undefined]
  /\ users = {}
  /\ nextRecipe = 2
  /\ now = 0
  /\ storeUp = TRUE
  /\ tokens = {}
  /\ \E user \in Identities, recipe \in Resources, kind \in {"update", "delete"} :
        /\ recipes = {recipe}
        /\ reqs = [i \in Slots |->
                     IF i = 1
                     THEN [Arrive(kind, Undefined, RecipeBody("c1"), recipe._id)
                             EXCEPT !.pc = "findById", !.user = user,
                                    !.doc = recipe]
                     ELSE IdleReq]

\* the guard of app.put and app.delete applied to every input
NextOwnership ==
  \/ UpdateSave(1)
  \/ SaveRespond(1)
  \/ DeleteExec(1)
  \/ DeleteRespond(1)

SpecOwnership == InitOwnership /\ [][NextOwnership]_vars

\* a recipe of the second user
BobsRecipe == [_id |-> ObjectId(1), author |-> Bob._id, content |-> "c1"]

\* the admin list as the operator may set it, under one configured secret
AdminLists ==
  {[JWT_SECRET |-> EnvSecret, ADMIN_EMAILS |-> a] :
     a \in {Undefined, [list |-> << <<" ", "A">> >>]}}

\* two registered users and a recipe of the second, under an admin list
\* that names neither
InitStale ==
  /\ env = [JWT_SECRET |-> EnvSecret, ADMIN_EMAILS |-> Undefined]
  /\ users = {Alice, Bob}
  /\ recipes = {BobsRecipe}
  /\ nextRecipe = 2
  /\ now = 0
  /\ storeUp = TRUE
  /\ tokens = {}
  /\ reqs = [i \in Slots |-> IdleReq]

\* the first user logs in and keeps the token, the operator changes the
\* admin list, later logins promote the user, and the tokens the client
\* holds are presented to the guarded recipe routes while the days pass,
\* one request at a time
NextStale ==
  \/ Login(1, Credentials(Undefined, Str(<<"a">>), Pass))
  \/ LoginCompare(1)
  \/ LoginSave(1)
  \/ LoginRespond(1)
  \/ KeepToken(1)
  \/ \E token \in tokens : DropToken(token)
  \/ \E e \in AdminLists : Restart(e)
  \/ Tick
  \/ \E header \in ClientHeaders, rid \in RecipeIds :
        Update(1, header, rid, RecipeBody("c2"))
  \/ UpdateSave(1)
  \/ SaveRespond(1)
  \/ \E header \in ClientHeaders, rid \in RecipeIds :
        Delete(1, header, rid)
  \/ DeleteExec(1)
  \/ DeleteRespond(1)
  \/ Recycle(1)

SpecStale == InitStale /\ [][NextStale]_vars

\* a recipe body that also carries an author field of the client's choice
AuthoredBodies(content) ==
  {[NoBody EXCEPT !.content = content, !.author = a] :
     a \in {Undefined, toString(Bob._id)}}

\* recipes are created and updated by the three users, through both PUT
\* handlers, with bodies that may name an author, two requests at a time
NextAuthors ==
  \/ \E i \in 1..2, header \in ClientHeaders, body \in AuthoredBodies("c1") :
        Create(i, header, body)
  \/ \E i \in 1..2 : CreateRespond(i)
  \/ \E i \in 1..2, header \in ClientHeaders, rid \in RecipeIds,
         body \in AuthoredBodies("c2") :
        Update(i, header, rid, body)
  \/ \E i \in 1..2 : UpdateSave(i)
  \/ \E i \in 1..2, header \in ClientHeaders, rid \in RecipeIds,
         body \in AuthoredBodies("c2") :
        RouterPut(i, header, rid, body)
  \/ \E i \in 1..2 : RouterPutSave(i)
  \/ \E i \in 1..2 : SaveRespond(i)
  \/ \E i \in 1..2 : Recycle(i)

SpecAuthors == InitRecipes /\ [][NextAuthors]_vars

(* ================================ claims =============================== *)
ValidRegister(r) ==
  /\ r.kind = "register" /\ r.pc = "done"
  /\ r.emailNorm # Undefined /\ r.error # StoreDown

\* C1: two registrations whose emails are equal after lower-casing and
\* trimming end, under every interleaving of their findOne and create, as
\* one success with a token and one Conflict (409); a create rejected by
\* the unique index answers the same 409 as the pre-check; and no two
\* user records share a normalized email.
C1_RegisterRaceConflict ==
  /\ \A i \in Slots :
        ValidRegister(reqs[i]) =>
          /\ reqs[i].status \in {"200", "409"}
          /\ reqs[i].status = "200" <=> reqs[i].token # Undefined
  /\ \A i, j \in Slots :
        (/\ i # j /\ ValidRegister(reqs[i]) /\ ValidRegister(reqs[j])
         /\ reqs[i].emailNorm = reqs[j].emailNorm)
          => ~(reqs[i].status = "200" /\ reqs[j].status = "200")
  /\ \A u, v \in users : u.email = v.email => u = v

LoginEnds(i) ==
  reqs'[i].kind = "login" /\ reqs[i].pc # "done" /\ reqs'[i].pc = "done"

\* C6: a login that issues a token for an email of the admin list issues
\* it with role admin while the store holds role admin for that user (the
\* promotion is saved before the token is signed), and a login whose save
\* fails issues no token.
C6_PromotionSavedBeforeToken ==
  [][\A i \in Slots :
        LoginEnds(i) =>
          /\ (reqs'[i].token # Undefined
                 /\ reqs'[i].emailNorm.s \in ADMIN_EMAILS)
               => /\ reqs'[i].token.role = "admin"
                  /\ \A u \in users :
                        u.email = reqs'[i].emailNorm.s => u.role = "admin"
          /\ reqs'[i].error = StoreDown => reqs'[i].token = Undefined]_vars

\* a promotion has been saved and its token is about to be issued
C6_Witness ==
  \E i \in Slots :
    /\ reqs[i].kind = "login" /\ reqs[i].pc = "save"
    /\ \E u \in users : u._id = reqs[i].doc._id /\ u.role = "admin"

\* C7: no operation removes a user or changes a stored role admin to
\* anything else, whatever the admin list is.
C7_NeverDemoted ==
  [][\A u \in users :
        \E v \in users' :
          /\ v._id = u._id
          /\ u.role = "admin" => v.role = "admin"]_vars

\* an admin whose email has left the admin list has logged in again
C7_Witness ==
  \E i \in Slots, u \in users :
    /\ u.role = "admin" /\ u.email \notin ADMIN_EMAILS
    /\ reqs[i].kind = "login" /\ reqs[i].pc = "done"
    /\ reqs[i].status = "200" /\ reqs[i].emailNorm.s = u.email

LoginMissing(r) == ~Truthy(r.body.email) \/ ~Truthy(r.body.password)

LoginOutcome(r) ==
  /\ r.status = "400" <=> LoginMissing(r)
  /\ r.status = "404" <=>
       (~LoginMissing(r) /\ r.error # StoreDown /\ r.doc = Undefined)
  /\ r.status = "401" <=>
       (r.doc # Undefined /\ ~bcryptCompare(r.body.password, r.doc.passwordHash))
  /\ r.status = "200" <=> r.token # Undefined
  /\ r.status = "200" =>
       (r.doc # Undefined /\ bcryptCompare(r.body.password, r.doc.passwordHash))
  /\ r.status = "500" <=> r.error = StoreDown
  /\ r.status \in {"400", "404", "401", "200", "500"}

\* C8: a login answers 400 when email or password is missing, 404 when
\* the lookup by normalized email finds no user, 401 when the password
\* does not verify against the stored hash, and a token only when it
\* does; a login that ends without a token leaves the user store as it was.
C8_LoginOutcomes ==
  /\ [](\A i \in Slots :
          (reqs[i].kind = "login" /\ reqs[i].pc = "done")
            => LoginOutcome(reqs[i]))
  /\ [][\A i \in Slots :
          /\ (reqs[i].pc = "idle" /\ reqs'[i].kind = "login"
                 /\ reqs'[i].pc = "findOne")
               => (reqs'[i].doc = Undefined <=>
                     ~\E u \in users :
                        u.email = trim(toLowerCase(reqs'[i].body.email.s)))
          /\ (reqs'[i].kind = "login" /\ reqs'[i].pc # reqs[i].pc
                 /\ users' # users) => reqs'[i].pc = "save"
          /\ (reqs[i].kind = "login" /\ reqs[i].pc = "save"
                 /\ reqs'[i].pc = "done") => reqs'[i].status = "200"]_vars

\* a login with a wrong password for a registered user has been refused
C8_Witness ==
  \E i \in Slots :
    /\ reqs[i].kind = "login" /\ reqs[i].pc = "done"
    /\ reqs[i].status = "401" /\ reqs[i].doc # Undefined

Guarded == {"me", "create", "update", "routerPut", "delete"}

\* a guarded request arrives in slot i with this step
Arrives(i) == reqs[i].pc = "idle" /\ reqs'[i].kind \in Guarded

\* the header is 'Bearer', one space, and a non-empty token segment
BearerHeader(header) ==
  /\ header # Undefined
  /\ Len(header.s) >= 3
  /\ header.s[1] = Word("Bearer") /\ header.s[2] = Space
  /\ header.s[3] # Space

\* the token segment of a Bearer header is one token that verifies now
Verifies(header) ==
  /\ Len(header.s) = 3 \/ header.s[4] = Space
  /\ header.s[3].t = "jwt"
  /\ header.s[3].key = JWT_SECRET
  /\ now < header.s[3].exp

CarriesExpired(header) ==
  /\ header # Undefined
  /\ \E k \in 1..Len(header.s) :
        header.s[k].t = "jwt" /\ now >= header.s[k].exp

\* C5: a token is accepted only if it was signed with the server's
\* secret and fewer than 7 days have passed since it was issued; a
\* request presenting a token past its expiry is answered 401, sees no
\* identity and gets no token.
C5_AcceptedOnlyWithinSevenDays ==
  [][\A i \in Slots :
        Arrives(i) =>
          LET r == reqs'[i]
          IN /\ r.user # Undefined
                  => /\ r.header.s[3].key = JWT_SECRET
                     /\ now - r.header.s[3].iat < TokenLifetime
             /\ CarriesExpired(r.header)
                  => /\ r.status = "401" /\ r.user = Undefined
                     /\ r.token = Undefined]_vars

\* C9: a request whose store call fails ends with an error status
\* response; no request ends without a response.
C9_EveryFaultAnswered ==
  \A i \in Slots :
    reqs[i].pc = "done" =>
      /\ reqs[i].status # "none"
      /\ reqs[i].error = StoreDown => reqs[i].status = "500"

\* C10: with no secret configured, no token signed under the well-known
\* default key is accepted, and none is issued under it.
C10_NoWellKnownSecret ==
  ~Truthy(env.JWT_SECRET) =>
    \A i \in Slots :
      /\ reqs[i].token # Undefined => reqs[i].token.key # DefaultSecret
      /\ reqs[i].user # Undefined => reqs[i].header.s[3].key # DefaultSecret

Mutations == {"update", "routerPut", "delete"}

\* the identity is the recipe's author or an admin
AuthorOrAdmin(user, recipe) ==
  user.role = "admin" \/ user.id = toString(recipe.author)

\* C2: a recipe is changed or removed only by a request with a valid
\* token whose identity is the recipe's author or an admin; a PUT or
\* DELETE without a valid token gets 401, for a missing recipe 404, and
\* from an authenticated identity that is neither author nor admin 403
\* (unless a fault ends it with 500), in every PUT and DELETE handler.
C2_OnlyAuthorOrAdminMutates ==
  /\ [][\A x \in recipes :
          x \notin recipes' =>
            \E i \in Slots :
              /\ reqs[i].pc = "findById" /\ reqs'[i].pc # "findById"
              /\ reqs[i].user # Undefined
              /\ AuthorOrAdmin(reqs[i].user, x)]_vars
  /\ [](\A i \in Slots :
          (reqs[i].kind \in Mutations /\ reqs[i].pc = "done") =>
            /\ reqs[i].status = "401" <=> reqs[i].user = Undefined
            /\ reqs[i].status = "404" => reqs[i].doc = Undefined
            /\ (reqs[i].user # Undefined /\ reqs[i].doc # Undefined
                  /\ reqs[i].status # "500"
                  /\ ~AuthorOrAdmin(reqs[i].user, reqs[i].doc))
                 => reqs[i].status = "403")

\* the reference predicate of the ownership rule
MayMutate(user, recipe) ==
  CASE user = Undefined -> FALSE
    [] user # Undefined /\ user.role = "admin" -> TRUE
    [] user # Undefined /\ user.role # "admin" /\ recipe.author = Undefined
         -> FALSE
    [] OTHER -> recipe.author.oid = user.id.hex

Stored(id) == CHOOSE u \in users : toString(u._id) = id

\* C11: the Session Verifier writes nothing to the Credential Store and
\* the identity it hands to the handler is the id, name and role of the
\* presented token, whatever the store records; a request presenting a
\* token issued before the user's promotion is served with the old role
\* (PUT and DELETE /recipes/:id on another author's recipe still answer
\* 403 and change nothing) for as long as the token has not expired, and
\* is answered 401 from its expiry on.
C11_VerifierIgnoresStore ==
  /\ [][\A i \in Slots :
          Arrives(i) =>
            LET r == reqs'[i]
            IN /\ users' = users
               /\ (BearerHeader(r.header) /\ Verifies(r.header)) =>
                    r.user = [id |-> r.header.s[3].id,
                              name |-> r.header.s[3].name,
                              role |-> r.header.s[3].role]
               /\ CarriesExpired(r.header) =>
                    r.status = "401" /\ r.user = Undefined]_vars
  /\ [](\A i \in Slots :
          reqs[i].user # Undefined =>
            /\ reqs[i].user.role = reqs[i].header.s[3].role
            /\ (/\ reqs[i].kind \in {"update", "delete"}
                /\ reqs[i].pc = "done"
                /\ reqs[i].user.role = "user"
                /\ reqs[i].doc # Undefined
                /\ toString(reqs[i].doc.author) # reqs[i].user.id)
                 => reqs[i].status = "403")
  /\ [][\A i \in Slots :
          (reqs[i].pc # "done" /\ reqs'[i].pc = "done"
             /\ reqs'[i].status = "403") => recipes' = recipes]_vars

\* after the login that promoted the user to admin, and a day later, the
\* token of the earlier login has been refused on another author's recipe
C11_Witness ==
  \E i \in Slots :
    /\ reqs[i].kind = "update" /\ reqs[i].pc = "done"
    /\ reqs[i].status = "403"
    /\ reqs[i].user # Undefined /\ reqs[i].user.role = "user"
    /\ Stored(reqs[i].user.id).role = "admin"
    /\ now > reqs[i].header.s[3].iat

\* C12: a recipe that POST /recipes stores has as author the id of the
\* identity the token of the creating request verified to, whatever
\* author the body names, and no step of any request, PUT /recipes/:id of
\* either handler and by an admin included, changes the author of a
\* stored recipe.
C12_AuthorIsCreator ==
  [][/\ \A x \in recipes' :
          (\A y \in recipes : y._id # x._id) =>
            \E i \in Slots :
              /\ reqs[i].pc = "idle" /\ reqs'[i].kind = "create"
              /\ reqs'[i].user # Undefined
              /\ reqs'[i].user.id = reqs'[i].header.s[3].id
              /\ toString(x.author) = reqs'[i].user.id
     /\ \A y \in recipes : \A x \in recipes' :
          x._id = y._id => x.author = y.author]_vars

\* an admin's PUT whose body names another author has been saved on a
\* recipe that a user created with a body naming another author
C12_Witness ==
  \E i \in Slots : \E x \in recipes :
    /\ reqs[i].kind \in {"update", "routerPut"} /\ reqs[i].status = "200"
    /\ reqs[i].user.role = "admin" /\ reqs[i].body.author # Undefined
    /\ reqs[i].rid = x._id /\ x.content = "c2"
    /\ x.author = Alice._id
    /\ \E j \in Slots :
          /\ reqs[j].kind = "create" /\ reqs[j].status = "201"
          /\ reqs[j].doc._id = x._id
          /\ reqs[j].body.author = toString(Bob._id)

====
